---- MODULE Spec2Model ----
(***************************************************************************)
(* Model of the image-correction stages of fretbiosensor                   *)
(* (src/src/fretprocessing.py, src/src/utils.py).                          *)
(*                                                                         *)
(* Every stage is a function over numpy arrays.  An array is a record      *)
(* [shape, data]: shape is the tuple of dimensions, data the row-major     *)
(* sequence of elements.  Float elements are exact rationals extended with *)
(* NaN, +/-Inf and +/-DBL_MAX (the values numpy arithmetic and nan_to_num  *)
(* produce); mask elements are the integers 0 and 1.                       *)
(*                                                                         *)
(* State: the arrays held by the caller (args), a snapshot of them taken   *)
(* at call time (args0), the options of the call (opts), the function      *)
(* about to be / just called (fn), the position (pc) and the outcome of    *)
(* the call (ret).                                                         *)
(***************************************************************************)
EXTENDS Integers, Sequences, FiniteSets, TLC

VARIABLES pc, fn, args, args0, opts, ret

vars == <<pc, fn, args, args0, opts, ret>>

(***************************************************************************)
(* Bounds of the model.                                                    *)
(***************************************************************************)
\* largest numerator n of an input pixel value n/2
MaxPix == 2

(***************************************************************************)
(* float64 values.                                                         *)
(***************************************************************************)
Abs(x) == IF x < 0 THEN -x ELSE x

Sign(x) == IF x < 0 THEN -1 ELSE IF x > 0 THEN 1 ELSE 0

RECURSIVE Gcd(_, _)
Gcd(a, b) == IF b = 0 THEN a ELSE Gcd(b, a % b)

\* the finite value n/d in lowest terms with a positive denominator
Fin(n, d) ==
    LET g == Gcd(Abs(n), Abs(d))
        s == Sign(d)
    IN  [k |-> "fin", n |-> (s * n) \div g, d |-> (s * d) \div g]

NaN == [k |-> "nan", n |-> 0, d |-> 0]

Inf(s) == [k |-> "inf", n |-> s, d |-> 0]

\* +/- numpy.finfo(float64).max, the finite value nan_to_num puts for +/-Inf
DblMax(s) == [k |-> "max", n |-> s, d |-> 0]

IsNaN(x) == x.k = "nan"

IsInf(x) == x.k = "inf"

Zero == Fin(0, 1)

One == Fin(1, 1)

\* x < y on floats; every comparison with NaN is False
FLt(x, y) ==
    IF IsNaN(x) \/ IsNaN(y) THEN FALSE
    ELSE IF x.k = "fin" /\ y.k = "fin" THEN x.n * y.d < y.n * x.d
    ELSE IF x.k = "fin" THEN y.n > 0
    ELSE IF y.k = "fin" THEN x.n < 0
    ELSE IF x.k = y.k THEN x.n < y.n
    ELSE IF x.k = "inf" THEN x.n < 0
    ELSE y.n > 0

FLe(x, y) == FLt(x, y) \/ (~IsNaN(x) /\ x = y)

\* x - y (IEEE: Inf - Inf of one sign is NaN)
FSub(x, y) ==
    IF IsNaN(x) \/ IsNaN(y) THEN NaN
    ELSE IF IsInf(x) THEN (IF IsInf(y) /\ y.n = x.n THEN NaN ELSE x)
    ELSE IF IsInf(y) THEN Inf(-y.n)
    ELSE Fin(x.n * y.d - y.n * x.d, x.d * y.d)

FAdd(x, y) ==
    IF IsNaN(x) \/ IsNaN(y) THEN NaN
    ELSE IF IsInf(x) THEN (IF IsInf(y) /\ y.n # x.n THEN NaN ELSE x)
    ELSE IF IsInf(y) THEN y
    ELSE Fin(x.n * y.d + y.n * x.d, x.d * y.d)

\* x * y (IEEE: 0 * Inf is NaN)
FMul(x, y) ==
    IF IsNaN(x) \/ IsNaN(y) THEN NaN
    ELSE IF IsInf(x) \/ IsInf(y)
         THEN (IF x.n = 0 \/ y.n = 0 THEN NaN ELSE Inf(Sign(x.n) * Sign(y.n)))
    ELSE Fin(x.n * y.n, x.d * y.d)

\* x / y (IEEE: 0/0 and Inf/Inf are NaN, x/0 is +/-Inf, x/Inf is 0)
FDiv(x, y) ==
    IF IsNaN(x) \/ IsNaN(y) THEN NaN
    ELSE IF IsInf(y) THEN (IF IsInf(x) THEN NaN ELSE Zero)
    ELSE IF y.n = 0 THEN (IF x.n = 0 THEN NaN ELSE Inf(Sign(x.n)))
    ELSE IF IsInf(x) THEN Inf(x.n * Sign(y.n))
    ELSE Fin(x.n * y.d, x.d * y.n)

(***************************************************************************)
(* numpy arrays and broadcasting.                                          *)
(***************************************************************************)
RECURSIVE Prod(_)
Prod(s) == IF s = <<>> THEN 1 ELSE Head(s) * Prod(Tail(s))

Size(shape) == Prod(shape)

Arr(shape, data) == [shape |-> shape, data |-> data]

Max2(a, b) == IF a >= b THEN a ELSE b

\* the shape padded on the left with 1s to n dimensions
PadShape(s, n) == [i \in 1..n |-> IF i <= n - Len(s) THEN 1 ELSE s[i - (n - Len(s))]]

BroadcastOK(s1, s2) ==
    LET n == Max2(Len(s1), Len(s2))
        p1 == PadShape(s1, n)
        p2 == PadShape(s2, n)
    IN  \A i \in 1..n : p1[i] = p2[i] \/ p1[i] = 1 \/ p2[i] = 1

BroadcastShape(s1, s2) ==
    LET n == Max2(Len(s1), Len(s2))
        p1 == PadShape(s1, n)
        p2 == PadShape(s2, n)
    IN  [i \in 1..n |-> IF p1[i] = 1 THEN p2[i] ELSE p1[i]]

\* stride of dimension k of a row-major array
Stride(shape, k) == Prod(SubSeq(shape, k + 1, Len(shape)))

\* multi-index of the element at 0-based flat position i
Unravel(i, shape) == [k \in 1..Len(shape) |-> (i \div Stride(shape, k)) % shape[k]]

\* 1-based position in an operand of shape s of the element that
\* broadcasting pairs with multi-index idx of the result
BIndex(idx, s) ==
    LET off == Len(idx) - Len(s)
        RECURSIVE Pos(_)
        Pos(k) == IF k > Len(s) THEN 0
                  ELSE (IF s[k] = 1 THEN 0 ELSE idx[k + off]) * Stride(s, k) + Pos(k + 1)
    IN  1 + Pos(1)

\* the elementwise operation of a two-operand ufunc
Apply2(op, x, y) == IF op = "subtract" THEN FSub(x, y) ELSE FDiv(x, y)

\* a ufunc of two operands: ValueError when the shapes do not broadcast
Ufunc2(op, a, b) ==
    IF ~BroadcastOK(a.shape, b.shape) THEN [kind |-> "raise", exc |-> "ValueError"]
    ELSE LET rs == BroadcastShape(a.shape, b.shape)
         IN  [kind |-> "array",
              val |-> Arr(rs, [i \in 1..Size(rs) |->
                         Apply2(op, a.data[BIndex(Unravel(i - 1, rs), a.shape)],
                                    b.data[BIndex(Unravel(i - 1, rs), b.shape)])])]

None == [kind |-> "none"]

Returned(a) == [kind |-> "array", val |-> a]

np_subtract(a, b) == Ufunc2("subtract", a, b)

np_true_divide(a, b) == Ufunc2("divide", a, b)

\* numpy.nan_to_num with its defaults: NaN -> 0.0, +/-Inf -> +/-DBL_MAX
nan_to_num_elem(x) == IF IsNaN(x) THEN Zero ELSE IF IsInf(x) THEN DblMax(x.n) ELSE x

np_nan_to_num(a) == Arr(a.shape, [i \in 1..Size(a.shape) |-> nan_to_num_elem(a.data[i])])

(***************************************************************************)
(* fretprocessing.calculate_ratio                                          *)
(***************************************************************************)
calculate_ratio(numerator, denominator, replace_nan_and_inf) ==
    LET ratio_image == np_true_divide(numerator, denominator)
    IN  IF ratio_image.kind = "raise" THEN ratio_image
        ELSE IF replace_nan_and_inf THEN Returned(np_nan_to_num(ratio_image.val))
        ELSE ratio_image

(***************************************************************************)
(* fretprocessing.subtract_bg                                              *)
(***************************************************************************)
\* variant of clip_below_one: the floor test compares with 0 instead of 1
clip_below_one_zero_test(x) == IF FLt(x, Zero) THEN One ELSE x

\* imgcorrected[imgcorrected < 1] = 1
clip_below_one(x) == IF FLt(x, One) THEN One ELSE x

subtract_bg(img, bg, clip_values) ==
    LET imgcorrected == np_subtract(img, bg)
    IN  IF imgcorrected.kind = "raise" THEN imgcorrected
        ELSE IF clip_values THEN Returned(Arr(imgcorrected.val.shape,
                     [i \in 1..Size(imgcorrected.val.shape) |-> clip_below_one(imgcorrected.val.data[i])]))
        ELSE imgcorrected

(***************************************************************************)
(* fretprocessing.flatfield_correction                                     *)
(***************************************************************************)
\* np.where(img < 0, 0, img)
clip_negative(x) == IF FLt(x, Zero) THEN Zero ELSE x

np_where_negative_0(a) == Arr(a.shape, [i \in 1..Size(a.shape) |-> clip_negative(a.data[i])])

\* variant of flatfield_correction: the clip is applied after the division
flatfield_correction_clip_last(img, flatfield, dark_current, clip_image) ==
    LET sub == np_subtract(img, dark_current)
    IN  IF sub.kind = "raise" THEN sub
        ELSE LET quot == np_true_divide(sub.val, flatfield)
             IN  IF quot.kind = "raise" \/ ~clip_image THEN quot
                 ELSE Returned(np_where_negative_0(quot.val))

flatfield_correction(img, flatfield, dark_current, clip_image) ==
    LET sub == np_subtract(img, dark_current)
    IN  IF sub.kind = "raise" THEN sub
        ELSE LET clipped == IF clip_image THEN np_where_negative_0(sub.val) ELSE sub.val
             IN  np_true_divide(clipped, flatfield)

(***************************************************************************)
(* Arithmetic stages called on caller-supplied operands.                   *)
(***************************************************************************)
PixelValues == {Fin(n, 2) : n \in -1..MaxPix}

\* every array of at most two pixels, in each shape of that size
SmallArrays ==
    {Arr(<<1>>, <<v>>) : v \in PixelValues}
    \cup {Arr(s, <<v, w>>) : s \in {<<2>>, <<1, 2>>, <<2, 1>>}, v \in PixelValues, w \in PixelValues}

\* three-pixel arrays of one value
WideArrays == {Arr(<<3>>, <<v, v, v>>) : v \in PixelValues}

ArrayInputs == SmallArrays \cup WideArrays

\* a background is a Python scalar, i.e. a 0-d operand, or an array
ScalarInputs == {Arr(<<>>, <<v>>) : v \in PixelValues}

\* dark-current references of one value
DarkInputs == {Arr(s, [i \in 1..Size(s) |-> v]) : s \in {<<1>>, <<2>>, <<3>>}, v \in PixelValues}

InitArith ==
    /\ pc = "call"
    /\ ret = None
    /\ \/ /\ fn = "calculate_ratio"
          /\ args \in {<<a, b>> : a \in ArrayInputs, b \in ArrayInputs}
          /\ opts \in {[replace_nan_and_inf |-> f] : f \in BOOLEAN}
       \/ /\ fn = "subtract_bg"
          /\ args \in {<<a, b>> : a \in ArrayInputs, b \in ArrayInputs \cup ScalarInputs}
          /\ opts \in {[clip_values |-> f] : f \in BOOLEAN}
       \/ /\ fn = "flatfield_correction"
          /\ args \in {<<a, b, c>> : a \in ArrayInputs, b \in ArrayInputs, c \in DarkInputs}
          /\ opts \in {[clip_image |-> f] : f \in BOOLEAN}
    /\ args0 = args

\* the position after a call: an exception leaves no result
After(r) == IF r.kind = "raise" THEN "raised" ELSE "returned"

CalculateRatio ==
    /\ pc = "call" /\ fn = "calculate_ratio"
    /\ ret' = calculate_ratio(args[1], args[2], opts.replace_nan_and_inf)
    /\ pc' = After(ret')
    /\ UNCHANGED <<fn, args, args0, opts>>

SubtractBg ==
    /\ pc = "call" /\ fn = "subtract_bg"
    /\ ret' = subtract_bg(args[1], args[2], opts.clip_values)
    /\ pc' = After(ret')
    /\ UNCHANGED <<fn, args, args0, opts>>

FlatfieldCorrection ==
    /\ pc = "call" /\ fn = "flatfield_correction"
    /\ ret' = flatfield_correction(args[1], args[2], args[3], opts.clip_image)
    /\ pc' = After(ret')
    /\ UNCHANGED <<fn, args, args0, opts>>

NextArith == CalculateRatio \/ SubtractBg \/ FlatfieldCorrection

SpecArith == InitArith /\ [][NextArith]_vars

(***************************************************************************)
(* Order statistics, numpy.median, numpy.mean, scipy.ndimage.median_filter *)
(***************************************************************************)
\* the element of rank k (0-based) of the values in increasing order
RankSelect(vals, k) ==
    IF \A j \in 1..Len(vals) : IsNaN(vals[j]) THEN NaN
    ELSE LET v == CHOOSE i \in 1..Len(vals) :
                      /\ Cardinality({j \in 1..Len(vals) : FLt(vals[j], vals[i])}) <= k
                      /\ k < Cardinality({j \in 1..Len(vals) : FLe(vals[j], vals[i])})
         IN  vals[v]

Two == Fin(2, 1)

\* variant of median_of: the two middle elements are added but not halved
median_of_unhalved(vals) ==
    LET n == Len(vals)
    IN  IF n = 0 THEN NaN
        ELSE IF n % 2 = 1 THEN RankSelect(vals, n \div 2)
        ELSE FAdd(RankSelect(vals, (n \div 2) - 1), RankSelect(vals, n \div 2))

\* numpy.median of a 1-d sample: the middle element, or the mean of the two
\* middle elements of an even-sized sample
median_of(vals) ==
    LET n == Len(vals)
    IN  IF n = 0 THEN NaN
        ELSE IF n % 2 = 1 THEN RankSelect(vals, n \div 2)
        ELSE FDiv(FAdd(RankSelect(vals, (n \div 2) - 1), RankSelect(vals, n \div 2)), Two)

\* numpy.median(stack, axis=0) of a sequence of same-shaped frames;
\* numpy.array([]) has shape (0,) and its median is the scalar NaN
np_median_axis0(stack) ==
    IF Len(stack) = 0 THEN Arr(<<>>, <<NaN>>)
    ELSE LET shape == stack[1].shape
         IN  Arr(shape, [p \in 1..Size(shape) |->
                     median_of([i \in 1..Len(stack) |-> stack[i].data[p]])])

RECURSIVE SumSeq(_)
SumSeq(vals) == IF vals = <<>> THEN Zero ELSE FAdd(Head(vals), SumSeq(Tail(vals)))

\* variant of np_mean: the sum is not divided by the element count
np_mean_undivided(a) == Arr(<<>>, <<SumSeq(a.data)>>)

\* numpy.mean over all elements: a scalar
np_mean(a) == Arr(<<>>, <<FDiv(SumSeq(a.data), Fin(Size(a.shape), 1))>>)

np_divide(a, b) == Ufunc2("divide", a, b)

\* scipy's default boundary mode "reflect": (d c b a | a b c d | d c b a)
Reflect(i, n) ==
    LET m == i % (2 * n)
    IN  IF m < n THEN m ELSE 2 * n - 1 - m

\* the values under a kh x kw window centred (origin 0) on pixel (r, c)
Window(a, r, c, kh, kw) ==
    LET h == a.shape[1]
        w == a.shape[2]
    IN  [j \in 1..(kh * kw) |->
            LET dr == ((j - 1) \div kw) - (kh \div 2)
                dc == ((j - 1) % kw) - (kw \div 2)
            IN  a.data[Reflect(r + dr, h) * w + Reflect(c + dc, w) + 1]]

\* scipy.ndimage.median_filter(a, size) of a 2-d array: the element of rank
\* (kh * kw) // 2 of every window
median_filter(a, size) ==
    IF Len(size) # Len(a.shape) THEN [kind |-> "raise", exc |-> "RuntimeError"]
    ELSE LET kh == size[1]
             kw == size[2]
             w == a.shape[2]
         IN  Returned(Arr(a.shape, [p \in 1..Size(a.shape) |->
                 RankSelect(Window(a, (p - 1) \div w, (p - 1) % w, kh, kw), (kh * kw) \div 2)]))

(***************************************************************************)
(* fretprocessing.load_correction_images                                   *)
(***************************************************************************)
\* i.endswith(".tif") or i.endswith(".tiff")
IsTiff(file) == file.ext = ".tif" \/ file.ext = ".tiff"

load_correction_images(folder) ==
    LET files == SelectSeq(folder, IsTiff)
        ch1_darkcurrent == [i \in 1..Len(files) |-> files[i].image]
    IN  np_median_axis0(ch1_darkcurrent)

(***************************************************************************)
(* fretprocessing.correct_flatfield_image                                  *)
(***************************************************************************)
\* median_filter_size=None
NoKernel == <<>>

correct_flatfield_image(flatfield_image, darkfield_image, normalization, median_filter_size) ==
    LET sub == np_subtract(flatfield_image, darkfield_image)
    IN  IF sub.kind = "raise" THEN sub
        ELSE LET norm == IF normalization THEN np_divide(sub.val, np_mean(sub.val)) ELSE sub
             IN  IF median_filter_size # NoKernel
                 THEN median_filter(norm.val, median_filter_size)
                 ELSE norm

(***************************************************************************)
(* The correction pipeline: dark-current reference, flatfield conditioning *)
(* and frame correction, run in this order on one folder of dark frames,   *)
(* one flatfield frame and one raw frame.                                  *)
(***************************************************************************)
\* most files a dark-current folder holds
MaxFiles == 3

FrameShape == <<2, 2>>

FramesOver(values) ==
    {Arr(FrameShape, <<a, b, c, d>>) : a \in values, b \in values, c \in values, d \in values}

Uniform(n) == Arr(FrameShape, [i \in 1..Size(FrameShape) |-> Fin(n, 1)])

DarkLevels == {0, 10}

StackLevels == {0, 10, 11}

FlatValues == {Fin(n, 1) : n \in {8, 10, 12}}

RawValues == {Fin(n, 1) : n \in {5, 20}}

\* a folder entry: the extension of its name and the image it decodes to
DarkFiles ==
    {[ext |-> ".tif", image |-> Arr(FrameShape, <<Fin(a, 1), Fin(b, 1), Fin(b, 1), Fin(a, 1)>>)] :
        a \in StackLevels, b \in StackLevels}
    \cup {[ext |-> ".tiff", image |-> Uniform(10)], [ext |-> ".txt", image |-> Uniform(0)]}

RECURSIVE SeqsUpTo(_, _)
SeqsUpTo(S, n) ==
    IF n = 0 THEN {<<>>}
    ELSE LET shorter == SeqsUpTo(S, n - 1)
         IN  shorter \cup {Append(q, x) : q \in {t \in shorter : Len(t) = n - 1}, x \in S}

PipeOpts ==
    {[normalization |-> nz, median_filter_size |-> k, clip_image |-> cl] :
        nz \in BOOLEAN, k \in {NoKernel, <<3, 3>>}, cl \in BOOLEAN}

DefaultOpts == [normalization |-> TRUE, median_filter_size |-> <<3, 3>>, clip_image |-> TRUE]

PipeArgs(folder, flat, raw) ==
    [folder |-> folder, flatfield_image |-> flat, img |-> raw,
     darkcurrent |-> None, flatfield |-> None]

\* the mean of flat - dark is not 0: the flatfield carries signal
HasSignal(flat, level) == SumSeq(flat.data) # Fin(level * Size(FrameShape), 1)

\* any folder of dark frames, with the reference flatfield and raw frame
InitDarkFolders ==
    /\ args \in {PipeArgs(folder, Uniform(12), Uniform(20)) : folder \in SeqsUpTo(DarkFiles, MaxFiles)}
    /\ opts = DefaultOpts

\* a stack of three equal dark frames, with any flatfield and raw frame
InitFrames ==
    /\ args \in {PipeArgs([i \in 1..3 |-> [ext |-> ".tif", image |-> Uniform(level)]], flat, raw) :
                    level \in DarkLevels,
                    flat \in FramesOver(FlatValues),
                    raw \in FramesOver(RawValues)}
    /\ HasSignal(args.flatfield_image, args.folder[1].image.data[1].n)
    /\ opts \in PipeOpts

InitPipe ==
    /\ pc = "start"
    /\ fn = "none"
    /\ ret = None
    /\ (InitDarkFolders \/ InitFrames)
    /\ args0 = args

LoadDarkCurrent ==
    /\ pc = "start"
    /\ fn' = "load_correction_images"
    /\ ret' = Returned(load_correction_images(args.folder))
    /\ args' = [args EXCEPT !.darkcurrent = ret'.val]
    /\ pc' = "dark"
    /\ UNCHANGED <<args0, opts>>

ConditionFlatfield ==
    /\ pc = "dark"
    /\ fn' = "correct_flatfield_image"
    /\ ret' = correct_flatfield_image(args.flatfield_image, args.darkcurrent,
                                      opts.normalization, opts.median_filter_size)
    /\ IF ret'.kind = "raise"
       THEN pc' = "raised" /\ args' = args
       ELSE pc' = "flat" /\ args' = [args EXCEPT !.flatfield = ret'.val]
    /\ UNCHANGED <<args0, opts>>

CorrectFrame ==
    /\ pc = "flat"
    /\ fn' = "flatfield_correction"
    /\ ret' = flatfield_correction(args.img, args.flatfield, args.darkcurrent, opts.clip_image)
    /\ pc' = IF ret'.kind = "raise" THEN "raised" ELSE "corrected"
    /\ UNCHANGED <<args, args0, opts>>

NextPipe == LoadDarkCurrent \/ ConditionFlatfield \/ CorrectFrame

SpecPipe == InitPipe /\ [][NextPipe]_vars

(***************************************************************************)
(* Binary morphology on 2-d images.  A boolean image is the set of its     *)
(* True pixels <<row, column>> (0-based) together with its shape.          *)
(***************************************************************************)
Pixels(shape) == {<<r, c>> : r \in 0..(shape[1] - 1), c \in 0..(shape[2] - 1)}

\* the True pixels of a 2-d array read as booleans (nonzero is True)
Foreground(a) ==
    {p \in Pixels(a.shape) : a.data[p[1] * a.shape[2] + p[2] + 1] # 0}

\* numpy.where(image, 1, 0)
np_where_1_0(S, shape) ==
    Arr(shape, [i \in 1..Size(shape) |->
            IF <<(i - 1) \div shape[2], (i - 1) % shape[2]>> \in S THEN 1 ELSE 0])

\* skimage.morphology.square(n): the offsets of an n x n block of ones
square(n) ==
    {<<dr, dc>> : dr \in (-(n \div 2))..(n - 1 - (n \div 2)), dc \in (-(n \div 2))..(n - 1 - (n \div 2))}

\* scipy.ndimage.generate_binary_structure(2, 1): the default structure
Cross == {<<0, 0>>, <<1, 0>>, <<-1, 0>>, <<0, 1>>, <<0, -1>>}

\* one dilation; pixels beyond the border count as False (border_value=0)
DilateOnce(S, structure, shape) ==
    {p \in Pixels(shape) : \E o \in structure : <<p[1] - o[1], p[2] - o[2]>> \in S}

RECURSIVE DilateTimes(_, _, _, _)
DilateTimes(S, structure, n, shape) ==
    IF n = 0 THEN S ELSE DilateTimes(DilateOnce(S, structure, shape), structure, n - 1, shape)

RECURSIVE DilateUntilStable(_, _, _)
DilateUntilStable(S, structure, shape) ==
    LET T == DilateOnce(S, structure, shape)
    IN  IF T = S THEN S ELSE DilateUntilStable(T, structure, shape)

\* scipy.ndimage.binary_dilation(input, structure, iterations): the dilation
\* is repeated iterations times, or until nothing changes if iterations < 1
binary_dilation(S, structure, iterations, shape) ==
    IF iterations < 1 THEN DilateUntilStable(S, structure, shape)
    ELSE DilateTimes(S, structure, iterations, shape)

\* the pixels of allowed reached from cur through 4-neighbours
RECURSIVE Flood(_, _)
Flood(cur, allowed) ==
    LET grown == {p \in allowed : p \in cur \/ \E o \in Cross : <<p[1] + o[1], p[2] + o[2]>> \in cur}
    IN  IF grown = cur THEN cur ELSE Flood(grown, allowed)

OnBorder(p, shape) ==
    p[1] = 0 \/ p[2] = 0 \/ p[1] = shape[1] - 1 \/ p[2] = shape[2] - 1

\* scipy.ndimage.binary_fill_holes: the background is flooded from outside
\* the image; background the flood does not reach is a hole and is filled
binary_fill_holes(S, shape) ==
    LET background == {p \in Pixels(shape) : p \notin S}
        outside == Flood({p \in background : OnBorder(p, shape)}, background)
    IN  {p \in Pixels(shape) : p \notin outside}

\* skimage.morphology.erosion(image, footprint): a pixel stays True when the
\* image is True under the whole footprint; the image is reflected at its
\* border (scipy.ndimage.grey_erosion, mode "reflect")
erosion(S, footprint, shape) ==
    {p \in Pixels(shape) : \A o \in footprint :
        <<Reflect(p[1] + o[1], shape[1]), Reflect(p[2] + o[2], shape[2])>> \in S}

\* the connected components (connectivity 1) of S
RECURSIVE Components(_)
Components(S) ==
    IF S = {} THEN {}
    ELSE LET p == CHOOSE q \in S : TRUE
             comp == Flood({p}, S)
         IN  {comp} \cup Components({q \in S : q \notin comp})

\* skimage.morphology.remove_small_objects(ar, min_size): components of
\* fewer than min_size pixels are removed
remove_small_objects(S, min_size) ==
    UNION {comp \in Components(S) : Cardinality(comp) >= min_size}

(***************************************************************************)
(* utils.smooth_segmentation                                               *)
(***************************************************************************)
\* variant of smooth_image: the mask is dilated once, not expand_iterations times
smooth_image_one_dilation(S, shape, expand_iterations, remove_small, remove_small_objects_size) ==
    LET filled == binary_fill_holes(S, shape)
        dilated == binary_dilation(filled, square(5), 1, shape)
        eroded == erosion(dilated, square(5), shape)
        cleaned == IF remove_small
                   THEN remove_small_objects(eroded, remove_small_objects_size * remove_small_objects_size)
                   ELSE eroded
    IN  binary_fill_holes(cleaned, shape)

\* the steps applied to one 2-d image (lines 48-54 and 58-64)
smooth_image(S, shape, expand_iterations, remove_small, remove_small_objects_size) ==
    LET filled == binary_fill_holes(S, shape)
        dilated == binary_dilation(filled, square(5), expand_iterations, shape)
        eroded == erosion(dilated, square(5), shape)
        cleaned == IF remove_small
                   THEN remove_small_objects(eroded, remove_small_objects_size * remove_small_objects_size)
                   ELSE eroded
    IN  binary_fill_holes(cleaned, shape)

\* slice index (1-based) of a 3-d stack, as a 2-d array
SliceOf(stack, index) ==
    LET shape == Tail(stack.shape)
    IN  Arr(shape, SubSeq(stack.data, (index - 1) * Size(shape) + 1, index * Size(shape)))

\* the outcome of a call: the value returned and the contents the argument
\* array holds afterwards.  The 3-d branch writes every smoothed slice back
\* into the argument and ends without a return statement; the 2-d branch
\* rebinds its local name and returns the new array.
smooth_segmentation(binary_objects, expand_iterations, remove_small, remove_small_objects_size) ==
    IF Len(binary_objects.shape) = 3
    THEN LET shape == Tail(binary_objects.shape)
             binary(index) ==
                 np_where_1_0(smooth_image(Foreground(SliceOf(binary_objects, index)), shape,
                                           expand_iterations, remove_small,
                                           remove_small_objects_size), shape)
             RECURSIVE Written(_)
             Written(index) ==
                 IF index > binary_objects.shape[1] THEN <<>>
                 ELSE binary(index).data \o Written(index + 1)
         IN  [ret |-> None, mem |-> Arr(binary_objects.shape, Written(1))]
    ELSE [ret |-> Returned(np_where_1_0(smooth_image(Foreground(binary_objects), binary_objects.shape,
                                                     expand_iterations, remove_small,
                                                     remove_small_objects_size),
                                        binary_objects.shape)),
          mem |-> binary_objects]

(***************************************************************************)
(* Properties of the arithmetic stages (checked under SpecArith).          *)
(***************************************************************************)
SameShapes == \A i \in 1..Len(args0) : args0[i].shape = args0[1].shape

\* C1: calculate_ratio with replace_nan_and_inf=True on same-shaped frames
\* returns exactly 0 at every pixel whose denominator is 0, whatever the
\* numerator is.
C1_ZeroDenominatorYieldsZero ==
    (fn = "calculate_ratio" /\ pc = "returned" /\ opts.replace_nan_and_inf /\ SameShapes)
        => \A p \in 1..Size(args0[2].shape) :
                args0[2].data[p] = Zero => ret.val.data[p] = Zero

\* the background paired with pixel p: the scalar, or the pixel's own entry
BgAt(bg, p) == IF bg.shape = <<>> THEN bg.data[1] ELSE bg.data[p]

\* x - y >= 1 for finite x and y
DiffAtLeastOne(x, y) == x.n * y.d - y.n * x.d >= x.d * y.d

\* C4: subtract_bg on a frame and a scalar or per-pixel background returns,
\* with clip_values=True, a frame with no pixel below 1, each pixel equal to
\* img[p] - bg[p] when that is at least 1 and to 1 otherwise; with
\* clip_values=False it returns img - bg unchanged.
C4_SubtractBgFloor ==
    (fn = "subtract_bg" /\ pc # "call"
        /\ (args0[2].shape = <<>> \/ args0[2].shape = args0[1].shape))
        => /\ pc = "returned"
           /\ ret.val.shape = args0[1].shape
           /\ \A p \in 1..Size(args0[1].shape) :
                LET x == args0[1].data[p]
                    b == BgAt(args0[2], p)
                    r == ret.val.data[p]
                    diff == Fin(x.n * b.d - b.n * x.d, x.d * b.d)
                IN  IF opts.clip_values
                    THEN /\ ~FLt(r, One)
                         /\ r = IF DiffAtLeastOne(x, b) THEN diff ELSE One
                    ELSE r = diff

\* a clipped call on a two-pixel frame with a per-pixel background: the first
\* pixel's difference is below 1 and is floored, the second is above 1 and kept
C4_Witness ==
    /\ fn = "subtract_bg" /\ pc = "returned" /\ opts.clip_values
    /\ args0[1].shape = <<2>> /\ args0[2].shape = <<2>>
    /\ ~DiffAtLeastOne(args0[1].data[1], args0[2].data[1])
    /\ ret.val.data[1] = One
    /\ FLt(One, ret.val.data[2])

\* C5: calculate_ratio and flatfield_correction fail with a shape-mismatch
\* error, returning no result, whenever their operands do not all have the
\* same shape.
C5_ShapeMismatchRaises ==
    (fn \in {"calculate_ratio", "flatfield_correction"} /\ pc # "call" /\ ~SameShapes)
        => pc = "raised"

(***************************************************************************)
(* Properties of the correction pipeline (checked under SpecPipe).         *)
(***************************************************************************)
\* the positions in the folder of the dark frames that are read
TiffIndexes == {i \in 1..Len(args0.folder) : args0.folder[i].ext \in {".tif", ".tiff"}}

\* C9: the dark-current reference of a non-empty stack of same-shaped frames
\* has the shape of one frame, and at each pixel lies between the minimum and
\* the maximum of that pixel across the stack.
C9_DarkCurrentWithinRange ==
    (pc # "start" /\ TiffIndexes # {})
        => /\ args.darkcurrent.shape = FrameShape
           /\ \A p \in 1..Size(FrameShape) :
                /\ \E i \in TiffIndexes :
                        FLe(args0.folder[i].image.data[p], args.darkcurrent.data[p])
                /\ \E j \in TiffIndexes :
                        FLe(args.darkcurrent.data[p], args0.folder[j].image.data[p])

\* a folder of two dark frames and one other file: at some pixel the two
\* frames differ and the reference lies strictly between them
C9_Witness ==
    /\ pc = "dark"
    /\ Len(args0.folder) = 3 /\ Cardinality(TiffIndexes) = 2
    /\ \E p \in 1..Size(FrameShape) : \E i \in TiffIndexes : \E j \in TiffIndexes :
            /\ FLt(args0.folder[i].image.data[p], args.darkcurrent.data[p])
            /\ FLt(args.darkcurrent.data[p], args0.folder[j].image.data[p])

DarkAllZero ==
    /\ args.darkcurrent.shape = FrameShape
    /\ \A p \in 1..Size(FrameShape) : args.darkcurrent.data[p] = Zero

FlatMeanPositive == FLt(Zero, SumSeq(args0.flatfield_image.data))

PixelCount == Fin(Size(FrameShape), 1)

\* C7 as claimed: with normalization=True, a flatfield of positive mean and
\* an all-zero dark-current reference, the conditioned flatfield has mean 1
\* (its pixels sum to the pixel count) for every median_filter_size.
C7_MeanIsOneAnyKernel ==
    (pc \in {"flat", "corrected"} /\ opts.normalization /\ DarkAllZero /\ FlatMeanPositive)
        => SumSeq(args.flatfield.data) = PixelCount

\* C7 as amended: with normalization=True, a flatfield of positive mean and
\* an all-zero dark-current reference, the conditioned flatfield has mean 1
\* (its pixels sum to the pixel count) when median_filter_size is None.
C7_MeanIsOneNoKernel ==
    (pc \in {"flat", "corrected"} /\ opts.normalization /\ DarkAllZero /\ FlatMeanPositive
        /\ opts.median_filter_size = NoKernel)
        => SumSeq(args.flatfield.data) = PixelCount

\* a non-uniform flatfield conditioned with normalization and no kernel
C7_Witness ==
    /\ pc = "flat" /\ opts.normalization /\ opts.median_filter_size = NoKernel
    /\ DarkAllZero /\ FlatMeanPositive
    /\ \E p \in 1..Size(FrameShape) :
            args0.flatfield_image.data[p] # args0.flatfield_image.data[1]

\* the folder holds dark frames, each all-10
AllTenStack ==
    /\ TiffIndexes # {}
    /\ \A i \in TiffIndexes : args0.folder[i].image = Uniform(10)

\* C10: flatfield_correction subtracts, then clips, then divides: each
\* output pixel is max(raw - dark, 0) / flatfield with clip_image and
\* (raw - dark) / flatfield without; and an all-10 dark stack, an all-12
\* flatfield and an all-20 raw frame give an all-1 flatfield and an all-10
\* corrected frame.
C10_SubtractClipDivide ==
    (pc = "corrected" /\ args.darkcurrent.shape = FrameShape)
        => /\ ret.val.shape = FrameShape
           /\ \A p \in 1..Size(FrameShape) :
                LET x == args0.img.data[p]
                    d == args.darkcurrent.data[p]
                    f == args.flatfield.data[p]
                    r == ret.val.data[p]
                    num == x.n * d.d - d.n * x.d
                    den == x.d * d.d
                    cnum == IF opts.clip_image /\ num < 0 THEN 0 ELSE num
                IN  IF f.n = 0
                    THEN r = IF cnum = 0 THEN NaN ELSE Inf(Sign(cnum))
                    ELSE r.k = "fin" /\ r.n * f.n * den = cnum * f.d * r.d
           /\ (AllTenStack /\ args0.flatfield_image = Uniform(12)
                    /\ args0.img = Uniform(20) /\ opts.normalization)
                => (args.flatfield = Uniform(1) /\ ret.val = Uniform(10))

\* a clipped correction in which a negative flatfield pixel gives a negative
\* output and a raw pixel below the dark current gives 0
C10_Witness ==
    /\ pc = "corrected" /\ opts.clip_image
    /\ \E p \in 1..Size(FrameShape) :
            FLt(args.flatfield.data[p], Zero) /\ FLt(ret.val.data[p], Zero)
    /\ \E q \in 1..Size(FrameShape) :
            FLt(args0.img.data[q], args.darkcurrent.data[q]) /\ ret.val.data[q] = Zero

(***************************************************************************)
(* Mask smoothing: smooth_segmentation called on a 2-d mask or on a 3-d    *)
(* stack of masks; the caller may smooth a returned mask a second time.    *)
(***************************************************************************)
\* rows and columns of a mask
MaskH == 3

MaskW == 12

\* most slices of a stack of masks
MaxDepth == 2

\* remove_small_objects_size of the calls (the source's default of 100 asks
\* for objects of 10000 pixels, more than a mask of the model holds)
SmallObjectsSize == 2

\* expand_iterations=3
DefaultExpandIterations == 3

MaskShape == <<MaskH, MaskW>>

Rect(r0, r1, c0, c1) == {<<r, c>> : r \in r0..r1, c \in c0..c1}

Rects ==
    {Rect(r0, r1, c0, c1) : r0 \in 0..(MaskH - 1), r1 \in 0..(MaskH - 1),
                            c0 \in 0..(MaskW - 1), c1 \in 0..(MaskW - 1)} \ {{}}

\* a 3 x 3 block with its centre missing
Rings == {Rect(0, 2, c, c + 2) \ {<<1, c + 1>>} : c \in 0..(MaskW - 3)}

\* a single pixel in the corner and a 2 x 2 block away from it
TwoBlobs == {{<<0, 0>>} \cup Rect(1, 2, c, c + 1) : c \in 2..(MaskW - 2)}

MaskInputs == {np_where_1_0(S, MaskShape) : S \in {{}} \cup Rects \cup Rings \cup TwoBlobs}

SliceInputs ==
    {np_where_1_0(S, MaskShape) :
        S \in {{}, {<<0, 0>>}, Rect(0, 1, 0, 1), Rect(1, 1, 2, 5), Rect(0, 2, 0, 2) \ {<<1, 1>>},
               {<<0, 0>>} \cup Rect(1, 2, 3, 4), Rect(0, MaskH - 1, 0, MaskW - 1)}}

RECURSIVE Concat(_)
Concat(seqs) == IF seqs = <<>> THEN <<>> ELSE Head(seqs) \o Concat(Tail(seqs))

\* numpy.array of a sequence of same-shaped 2-d masks
StackOf(slices) ==
    Arr(<<Len(slices)>> \o MaskShape, Concat([i \in 1..Len(slices) |-> slices[i].data]))

StackInputs == {StackOf(q) : q \in SeqsUpTo(SliceInputs, MaxDepth) \ {<<>>}}

SmoothOpts ==
    {[expand_iterations |-> e, remove_small |-> b, remove_small_objects_size |-> SmallObjectsSize] :
        e \in {1, DefaultExpandIterations}, b \in BOOLEAN}

InitMask ==
    /\ pc = "call"
    /\ fn = "smooth_segmentation"
    /\ ret = None
    /\ args \in {<<m>> : m \in MaskInputs \cup StackInputs}
    /\ opts \in SmoothOpts
    /\ args0 = args

\* the call acts on the caller's newest array
SmoothSegmentation ==
    /\ pc = "call" /\ fn = "smooth_segmentation"
    /\ LET out == smooth_segmentation(args[Len(args)], opts.expand_iterations,
                                      opts.remove_small, opts.remove_small_objects_size)
       IN  /\ ret' = out.ret
           /\ args' = [args EXCEPT ![Len(args)] = out.mem]
    /\ pc' = "returned"
    /\ UNCHANGED <<fn, args0, opts>>

\* the caller keeps the returned mask and passes it to a second call
SmoothAgain ==
    /\ pc = "returned" /\ fn = "smooth_segmentation"
    /\ ret.kind = "array" /\ Len(args) = 1
    /\ args' = Append(args, ret.val)
    /\ args0' = args'
    /\ ret' = None
    /\ pc' = "call"
    /\ UNCHANGED <<fn, opts>>

NextMask == SmoothSegmentation \/ SmoothAgain

SpecMask == InitMask /\ [][NextMask]_vars

(***************************************************************************)
(* fretprocessing.bg_calculation                                           *)
(***************************************************************************)
RECURSIVE MinOf(_)
MinOf(vals) ==
    IF Len(vals) = 1 THEN vals[1]
    ELSE LET m == MinOf(Tail(vals)) IN IF FLt(vals[1], m) THEN vals[1] ELSE m

RECURSIVE MaxOf(_)
MaxOf(vals) ==
    IF Len(vals) = 1 THEN vals[1]
    ELSE LET m == MaxOf(Tail(vals)) IN IF FLt(m, vals[1]) THEN vals[1] ELSE m

Half == Fin(1, 2)

\* edge i (0-based) of numpy.histogram(img, bins=50): 51 edges evenly spaced
\* over [min, max], or over [min - 0.5, max + 0.5] when min = max
BinEdge(img, i) ==
    LET lo == MinOf(img.data)
        hi == MaxOf(img.data)
        first == IF lo = hi THEN FSub(lo, Half) ELSE lo
        last == IF lo = hi THEN FAdd(hi, Half) ELSE hi
    IN  FAdd(first, FDiv(FMul(Fin(i, 1), FSub(last, first)), Fin(50, 1)))

\* numpy.percentile(bins[0:30], 75): linear interpolation at position
\* 0.75 * 29 = 21.75 of the 30 increasing edges
percentile_75_of_30_edges(img) ==
    FAdd(BinEdge(img, 21), FMul(Fin(3, 4), FSub(BinEdge(img, 22), BinEdge(img, 21))))

\* the elements of a at the positions of keep, in row-major order from i on
RECURSIVE SelectFrom(_, _, _)
SelectFrom(a, keep, i) ==
    IF i > Size(a.shape) THEN <<>>
    ELSE (IF i \in keep THEN <<a.data[i]>> ELSE <<>>) \o SelectFrom(a, keep, i + 1)

IsArray(x) == "shape" \in DOMAIN x

\* the histogram plot of the unmasked branch draws and changes no array
bg_calculation(img, masked_frame, iter_number) ==
    IF ~IsArray(masked_frame)
    THEN Returned(Arr(<<>>, <<percentile_75_of_30_edges(img)>>))
    ELSE IF masked_frame.shape # img.shape THEN [kind |-> "raise", exc |-> "IndexError"]
    ELSE LET shape == masked_frame.shape
             frame_segmented_expanded ==
                 binary_dilation(Foreground(masked_frame), Cross, iter_number, shape)
             background == {i \in 1..Size(shape) :
                               <<(i - 1) \div shape[2], (i - 1) % shape[2]>> \notin frame_segmented_expanded}
         IN  Returned(Arr(<<>>, <<median_of(SelectFrom(img, background, 1))>>))

(***************************************************************************)
(* Background estimation called on a frame and an optional mask.           *)
(***************************************************************************)
\* largest iter_number of a call
MaxIter == 2

BgShape == <<2, 3>>

BgImages ==
    {Arr(BgShape, [i \in 1..Size(BgShape) |-> Fin(i, 1)]),
     Arr(BgShape, [i \in 1..Size(BgShape) |-> Fin(3, 1)]),
     Arr(BgShape, <<Fin(9, 2), Fin(1, 1), Fin(4, 1), Fin(1, 1), Fin(7, 1), Fin(2, 1)>>)}

BgMasks == {np_where_1_0(S, BgShape) : S \in SUBSET Pixels(BgShape)}

InitBg ==
    /\ pc = "call"
    /\ fn = "bg_calculation"
    /\ ret = None
    /\ args \in {<<img, m>> : img \in BgImages, m \in BgMasks \cup {None}}
    /\ opts \in {[iter_number |-> n] : n \in 0..MaxIter}
    /\ args0 = args

BgCalculation ==
    /\ pc = "call" /\ fn = "bg_calculation"
    /\ ret' = bg_calculation(args[1], args[2], opts.iter_number)
    /\ pc' = After(ret')
    /\ UNCHANGED <<fn, args, args0, opts>>

NextBg == BgCalculation

SpecBg == InitBg /\ [][NextBg]_vars

(***************************************************************************)
(* Properties of mask smoothing (checked under SpecMask).                  *)
(***************************************************************************)
\* the array the call was made on
Input == args0[Len(args0)]

\* C2: on a 3-d stack smooth_segmentation returns a 0/1 mask of the shape of
\* the input whose every slice is what smooth_segmentation returns for that
\* slice alone with the same parameters.
C2_StackSmoothedSliceWise ==
    (fn = "smooth_segmentation" /\ pc = "returned" /\ Len(Input.shape) = 3)
        => /\ ret.kind = "array"
           /\ ret.val.shape = Input.shape
           /\ \A i \in 1..Size(Input.shape) : ret.val.data[i] \in {0, 1}
           /\ \A k \in 1..Input.shape[1] :
                SliceOf(ret.val, k) =
                    smooth_segmentation(SliceOf(Input, k), opts.expand_iterations,
                                        opts.remove_small, opts.remove_small_objects_size).ret.val

\* C3: after a call every array passed in holds the contents it held before
\* the call.
C3_ArgumentsUntouched == (pc = "returned") => args = args0

\* a single hole-free blob of at least remove_small_objects_size squared
\* pixels that does not fill the frame
IsLargeBlob(m) ==
    LET S == Foreground(m)
    IN  /\ Cardinality(Components(S)) = 1
        /\ binary_fill_holes(S, m.shape) = S
        /\ Cardinality(S) >= opts.remove_small_objects_size * opts.remove_small_objects_size
        /\ S # Pixels(m.shape)

\* the second of two calls with the default parameters has returned, the
\* first was made on a large blob
SmoothedTwice ==
    /\ fn = "smooth_segmentation" /\ pc = "returned" /\ Len(args0) = 2
    /\ opts.expand_iterations = DefaultExpandIterations /\ opts.remove_small
    /\ IsLargeBlob(args0[1])

\* C8 as claimed: smoothing the output of a first smoothing of a large blob
\* gives the first output again.
C8_Idempotent == SmoothedTwice => ret.val = args0[2]

\* C8 as amended: smoothing a large blob grows it; the first output contains
\* the blob, the second output contains the first, and the two outputs are
\* equal exactly when the first output fills the frame.
C8_GrowsUntilFull ==
    SmoothedTwice =>
        /\ Foreground(args0[1]) \subseteq Foreground(args0[2])
        /\ Foreground(args0[2]) \subseteq Foreground(ret.val)
        /\ (ret.val = args0[2]) <=> (Foreground(args0[2]) = Pixels(args0[2].shape))

\* a large blob whose first output leaves part of the frame free and whose
\* second output is larger than the first
C8_Witness ==
    /\ SmoothedTwice
    /\ Foreground(args0[2]) # Pixels(args0[2].shape)
    /\ Foreground(args0[1]) # Foreground(args0[2])
    /\ ret.val # args0[2]

(***************************************************************************)
(* Properties of background estimation (checked under SpecBg).             *)
(***************************************************************************)
\* city-block distance of two pixels
Distance(p, q) == Abs(p[1] - q[1]) + Abs(p[2] - q[2])

\* the positions of the pixels the mask dilated iter_number times leaves out:
\* those further than iter_number steps from every mask pixel
OutsideDilatedMask ==
    LET mask == Foreground(args0[2])
    IN  {i \in 1..Size(BgShape) :
            \A q \in mask :
                /\ opts.iter_number >= 1
                /\ Distance(<<(i - 1) \div BgShape[2], (i - 1) % BgShape[2]>>, q) > opts.iter_number}

\* C6: in masked mode bg_calculation fails with an error when the dilated
\* mask leaves no pixel out, and otherwise returns the median of exactly the
\* pixels left out.
C6_FullCoverRaises ==
    (fn = "bg_calculation" /\ pc # "call" /\ IsArray(args0[2]))
        => IF OutsideDilatedMask = {}
           THEN pc = "raised"
           ELSE /\ pc = "returned"
                /\ ret.val = Arr(<<>>, <<median_of(SelectFrom(args0[1], OutsideDilatedMask, 1))>>)

====
